---- MODULE Spec2Model ----
(***************************************************************************)
(* A model of clean_playlist.py: the playlist loader, parser and writer    *)
(* (validate_m3u, save_valid_playlist), the thread-pool validation engine  *)
(* (validate_streams_in_batches) and the nested playlist resolver          *)
(* (extract_and_validate_playlist).                                        *)
(*                                                                         *)
(* Text is a sequence of tokens.  A token is a TLA+ string standing for a  *)
(* run of characters that the code never looks inside: " " and "\n" are    *)
(* whitespace, "#" is the directive marker, "http://" is a URL scheme with *)
(* its "//", "/" is a path separator, anything else is a name.             *)
(***************************************************************************)
EXTENDS Integers, Sequences, FiniteSets, TLC

VARIABLES
    \* validate_m3u / save_valid_playlist (main)
    pc,             \* position of main: "start", "validated", "saved"
    url_or_path,    \* args.source
    content,        \* text of the playlist behind url_or_path
    source_ok,      \* the playlist can be fetched or read
    probed,         \* the urls validate_m3u gave to validate_streams_in_batches
    verdicts,       \* what streamlink.streams did for each of them
    input_lines,    \* lines returned by validate_m3u
    valid_streams,  \* valid streams returned by validate_m3u
    writes,         \* arguments of the file.write calls, in order
    printed,        \* arguments of the print calls of save_valid_playlist
    \* validate_streams_in_batches
    epc,            \* "idle", "running", "returned"
    urls,           \* argument urls
    batch_size,     \* argument batch_size
    futures,        \* future_to_url with each future's state
    collected,      \* valid_streams of the engine, in collection order
    \* extract_and_validate_playlist
    rpc,            \* "idle", "running", "done"
    store,          \* what m3u8.load finds behind each playlist URL
    stack,          \* call stack of extract_and_validate_playlist
    result,         \* the accumulator valid_urls
    loads,          \* the URLs given to m3u8.load, in call order
    raised          \* an exception left the outermost call

mainVars == <<pc, url_or_path, content, source_ok, probed, verdicts,
              input_lines, valid_streams, writes, printed>>
engineVars == <<epc, urls, batch_size, futures, collected>>
resolverVars == <<rpc, store, stack, result, loads, raised>>
vars == <<mainVars, engineVars, resolverVars>>

----------------------------------------------------------------------------
(* Bounds of the model *)

MaxLines == 3
MaxUrls == 3
MaxBatch == 2
MaxDepth == 3
MaxSubs == 3

----------------------------------------------------------------------------
(* Text *)

Space == {" ", "\n"}

RECURSIVE lstrip(_)
lstrip(s) == IF s # <<>> /\ Head(s) \in Space THEN lstrip(Tail(s)) ELSE s

RECURSIVE rstrip(_)
rstrip(s) ==
    IF s # <<>> /\ s[Len(s)] \in Space THEN rstrip(SubSeq(s, 1, Len(s) - 1)) ELSE s

\* str.strip()
strip(s) == rstrip(lstrip(s))

\* str.startswith(prefix) for a one-token prefix
startswith(s, tok) == s # <<>> /\ Head(s) = tok

\* url_or_path.startswith(('http://', 'https://'))
IsHttp(s) == startswith(s, "http://") \/ startswith(s, "https://")

\* position of the last "/" token of s, 0 when there is none
LastSlash(s) ==
    LET P == {i \in 1..Len(s) : s[i] = "/"}
    IN IF P = {} THEN 0 ELSE CHOOSE i \in P : \A j \in P : j <= i

\* position of the first "/" token of s, 0 when there is none
FirstSlash(s) ==
    LET P == {i \in 1..Len(s) : s[i] = "/"}
    IN IF P = {} THEN 0 ELSE CHOOSE i \in P : \A j \in P : i <= j

\* urllib.parse.urljoin on URLs without query, fragment or dot segments:
\* an absolute URL passes through, a path starting with "/" replaces the
\* path of the base, any other path replaces the last segment of the base
urljoin(base, url) ==
    IF base = <<>> THEN url
    ELSE IF url = <<>> THEN base
    ELSE IF IsHttp(url) THEN url
    ELSE IF Head(url) = "/"
        THEN (IF FirstSlash(base) = 0 THEN base \o url
              ELSE SubSeq(base, 1, FirstSlash(base) - 1) \o url)
    ELSE IF LastSlash(base) = 0
        THEN (IF IsHttp(base) THEN base \o <<"/">> \o url ELSE url)
    ELSE SubSeq(base, 1, LastSlash(base)) \o url

\* the lines of a text, each with its "\n" (file.readlines())
RECURSIVE readlines(_)
readlines(text) ==
    IF text = <<>> THEN <<>>
    ELSE LET N == {i \in 1..Len(text) : text[i] = "\n"}
             k == IF N = {} THEN Len(text)
                  ELSE CHOOSE i \in N : \A j \in N : i <= j
         IN <<SubSeq(text, 1, k)>> \o readlines(SubSeq(text, k + 1, Len(text)))

\* the lines of a text without their "\n" (str.splitlines())
splitlines(text) ==
    LET L == readlines(text)
    IN [i \in 1..Len(L) |->
            IF L[i][Len(L[i])] = "\n" THEN SubSeq(L[i], 1, Len(L[i]) - 1) ELSE L[i]]

RECURSIVE Flatten(_)
Flatten(ss) == IF ss = <<>> THEN <<>> ELSE Head(ss) \o Flatten(Tail(ss))

Range(s) == {s[i] : i \in 1..Len(s)}

Count(s, x) == Cardinality({i \in 1..Len(s) : s[i] = x})

\* Python's None; like None it is falsy, and no URL the code handles is empty
None == <<>>

\* the permutations of 1..n
Perms(n) == {f \in [1..n -> 1..n] : \A i, j \in 1..n : f[i] = f[j] => i = j}

Reverse(s) == [i \in 1..Len(s) |-> s[Len(s) + 1 - i]]

----------------------------------------------------------------------------
(* The functions of clean_playlist.py *)

\* what streamlink.streams(url) does: a stream set with or without a 'best'
\* rendition, or an exception
Outcomes == {"best", "nobest", "raise"}

\* a validate_stream that does not look for the 'best' rendition
validate_stream_any(url, outcome) == IF outcome # "raise" THEN url ELSE None

validate_stream(url, outcome) == IF outcome = "best" THEN url ELSE None

\* load_m3u_playlist raises: only the local branch has no try
LoadRaises(src, ok) == ~IsHttp(src) /\ ~ok

\* a loader that takes whatever text came back for the lines of the playlist
load_any_response(src, text, ok) ==
    IF IsHttp(src) THEN splitlines(text) ELSE readlines(text)

load_m3u_playlist(src, text, ok) ==
    IF IsHttp(src)
        THEN (IF ok THEN splitlines(text) ELSE <<>>)
        ELSE readlines(text)

\* the test parse_m3u_playlist makes on a line, after trimming it
IsCandidate(line) == strip(line) # <<>> /\ ~startswith(strip(line), "#")

\* a parser that looks for the "#" before trimming the line
parse_untrimmed(lines, base_url) ==
    LET IsUrl(line) == strip(line) # <<>> /\ ~startswith(line, "#")
        kept == SelectSeq(lines, IsUrl)
    IN [i \in 1..Len(kept) |-> urljoin(base_url, strip(kept[i]))]

parse_m3u_playlist(lines, base_url) ==
    LET kept == SelectSeq(lines, IsCandidate)
    IN [i \in 1..Len(kept) |-> urljoin(base_url, strip(kept[i]))]

\* a collecting loop that stops at the first negative result
BatchResultUntilFailure(us, outcome, order) ==
    LET results == [i \in 1..Len(us) |->
                        validate_stream(us[order[i]], outcome[order[i]])]
        Bad == {i \in 1..Len(us) : results[i] = None}
    IN IF Bad = {} THEN results
       ELSE SubSeq(results, 1, (CHOOSE i \in Bad : \A j \in Bad : i <= j) - 1)

\* the result of validate_streams_in_batches when the probe of the i-th URL
\* ends as outcome[i] and the futures complete in the order given
BatchResult(us, outcome, order) ==
    LET results == [i \in 1..Len(us) |->
                        validate_stream(us[order[i]], outcome[order[i]])]
        Truthy(r) == r # None
    IN SelectSeq(results, Truthy)

BaseUrl(src) == IF IsHttp(src) THEN src ELSE <<>>

\* the kept lines, last line first
SavedLinesReversed(lines, valid_urls) ==
    LET Keep(line) ==
            IF strip(line) # <<>> /\ ~startswith(line, "#")
                THEN strip(line) \in Range(valid_urls)
                ELSE TRUE
    IN Reverse(SelectSeq(lines, Keep))

\* the lines save_valid_playlist writes, before the "\n" it adds to each
SavedLines(lines, valid_urls) ==
    LET Keep(line) ==
            IF strip(line) # <<>> /\ ~startswith(line, "#")
                THEN strip(line) \in Range(valid_urls)
                ELSE TRUE
    IN SelectSeq(lines, Keep)

\* the "Invalid stream" diagnostics of save_valid_playlist
InvalidLines(lines, valid_urls) ==
    LET Dropped(line) ==
            /\ strip(line) # <<>> /\ ~startswith(line, "#")
            /\ strip(line) \notin Range(valid_urls)
        d == SelectSeq(lines, Dropped)
    IN [i \in 1..Len(d) |-> strip(d[i])]

----------------------------------------------------------------------------
(* Inputs *)

HttpSource == <<"http://", "h", "/", "p", "/", "list.m3u">>
FileSource == <<"list.m3u">>
Sources == {HttpSource, FileSource}

LineTexts ==
    { <<"#", "EXTM3U">>,
      <<" ", "#", "EXTINF">>,
      <<>>,
      <<"http://", "a", "/", "ok">>,
      <<" ", "http://", "b", "/", "x", " ">>,
      <<"seg1.ts">> }

SeqsUpTo(S, n) == UNION {[1..k -> S] : k \in 0..n}

TextOf(ls) == Flatten([i \in 1..Len(ls) |-> ls[i] \o <<"\n">>])

----------------------------------------------------------------------------
(* main: validate_m3u, then save_valid_playlist *)

EngineIdle ==
    /\ epc = "idle" /\ urls = <<>> /\ batch_size = 0
    /\ futures = <<>> /\ collected = <<>>

ResolverIdle ==
    /\ rpc = "idle" /\ store = <<>> /\ stack = <<>>
    /\ result = <<>> /\ loads = <<>> /\ raised = FALSE

Init ==
    /\ pc = "start"
    /\ url_or_path \in Sources
    /\ \E ls \in SeqsUpTo(LineTexts, MaxLines) : content = TextOf(ls)
    /\ source_ok \in BOOLEAN
    /\ probed = <<>> /\ verdicts = <<>>
    /\ input_lines = <<>> /\ valid_streams = <<>>
    /\ writes = <<>> /\ printed = <<>>
    /\ EngineIdle /\ ResolverIdle

validate_m3u ==
    /\ pc = "start"
    /\ IF LoadRaises(url_or_path, source_ok)
        THEN /\ input_lines' = <<>> /\ valid_streams' = <<>>
             /\ probed' = <<>> /\ verdicts' = <<>>
        ELSE LET lines == load_m3u_playlist(url_or_path, content, source_ok)
                 us == parse_m3u_playlist(lines, BaseUrl(url_or_path))
             IN /\ input_lines' = lines
                /\ probed' = us
                /\ \E outcome \in [1..Len(us) -> Outcomes], order \in Perms(Len(us)) :
                       /\ verdicts' = outcome
                       /\ valid_streams' = BatchResult(us, outcome, order)
    /\ pc' = "validated"
    /\ UNCHANGED <<url_or_path, content, source_ok, writes, printed, engineVars, resolverVars>>

save_valid_playlist ==
    /\ pc = "validated"
    /\ LET kept == SavedLines(input_lines, valid_streams)
           bad == InvalidLines(input_lines, valid_streams)
       IN /\ writes' = [i \in 1..Len(kept) |-> kept[i] \o <<"\n">>]
          /\ printed' = [i \in 1..Len(bad) |-> [kind |-> "invalid", text |-> bad[i], n |-> 0]]
                \o <<[kind |-> "saved", text |-> <<>>, n |-> Len(valid_streams)]>>
    /\ pc' = "saved"
    /\ UNCHANGED <<url_or_path, content, source_ok, probed, verdicts,
                   input_lines, valid_streams, engineVars, resolverVars>>

Next == validate_m3u \/ save_valid_playlist

Spec == Init /\ [][Next]_vars

----------------------------------------------------------------------------
(* validate_streams_in_batches: a ThreadPoolExecutor of max_workers threads *)
(* runs one validate_stream per submitted URL; the calling thread collects  *)
(* the futures as they complete.                                            *)

max_workers == 10
DefaultBatchSize == 10

EngineUrls == { <<"http://", "a", "/", "ok">>, <<"http://", "b", "/", "x">> }

MainIdle ==
    /\ pc = "idle" /\ url_or_path = <<>> /\ content = <<>>
    /\ source_ok = FALSE /\ probed = <<>> /\ verdicts = <<>>
    /\ input_lines = <<>> /\ valid_streams = <<>>
    /\ writes = <<>> /\ printed = <<>>

InitEngine ==
    /\ epc = "running"
    /\ urls \in SeqsUpTo(EngineUrls, MaxUrls)
    /\ batch_size \in (1..MaxBatch) \cup {DefaultBatchSize}
    /\ futures = <<>>
    /\ collected = <<>>
    /\ MainIdle /\ ResolverIdle

InState(st) == {i \in 1..Len(futures) : futures[i].state = st}

\* the probes in flight: validate_stream calls that have started and not ended
InFlight == InState("running") \cup InState("hung")

AllSubmitted == Len(futures) = Len(urls)

\* executor.submit(validate_stream, url) for the next url of urls
submit ==
    /\ epc = "running"
    /\ ~AllSubmitted
    /\ futures' = Append(futures,
            [url |-> urls[Len(futures) + 1], state |-> "queued",
             outcome |-> "", result |-> None])
    /\ UNCHANGED <<epc, urls, batch_size, collected, mainVars, resolverVars>>

\* a worker thread takes the oldest work item of the executor's queue
worker_start(i) ==
    /\ epc = "running"
    /\ i \in InState("queued")
    /\ \A j \in InState("queued") : i <= j
    /\ Cardinality(InFlight) < max_workers
    /\ futures' = [futures EXCEPT ![i].state = "running"]
    /\ UNCHANGED <<epc, urls, batch_size, collected, mainVars, resolverVars>>

\* validate_stream returns: streamlink.streams answered or raised
worker_finish(i) ==
    /\ epc = "running"
    /\ i \in InState("running")
    /\ \E outcome \in Outcomes :
        futures' = [futures EXCEPT ![i].state = "done",
                                   ![i].outcome = outcome,
                                   ![i].result = validate_stream(futures[i].url, outcome)]
    /\ UNCHANGED <<epc, urls, batch_size, collected, mainVars, resolverVars>>

\* streamlink.streams never answers: nothing in validate_stream or in
\* validate_streams_in_batches bounds the wait
probe_hangs(i) ==
    /\ epc = "running"
    /\ i \in InState("running")
    /\ futures' = [futures EXCEPT ![i].state = "hung"]
    /\ UNCHANGED <<epc, urls, batch_size, collected, mainVars, resolverVars>>

\* a collection that keeps only the latest positive result
collect_overwrite(i) ==
    /\ epc = "running"
    /\ AllSubmitted
    /\ i \in InState("done")
    /\ futures' = [futures EXCEPT ![i].state = "collected"]
    /\ collected' = IF futures[i].result # None
                        THEN <<futures[i].result>>
                        ELSE collected
    /\ UNCHANGED <<epc, urls, batch_size, mainVars, resolverVars>>

\* one turn of the loop over as_completed(future_to_url)
collect(i) ==
    /\ epc = "running"
    /\ AllSubmitted
    /\ i \in InState("done")
    /\ futures' = [futures EXCEPT ![i].state = "collected"]
    /\ collected' = IF futures[i].result # None
                        THEN Append(collected, futures[i].result)
                        ELSE collected
    /\ UNCHANGED <<epc, urls, batch_size, mainVars, resolverVars>>

\* a loop that ends as soon as one future was yielded
SomeCollected == InState("collected") # {} \/ futures = <<>>

\* as_completed is exhausted: every future was yielded
AllCollected == InState("collected") = 1..Len(futures)

\* the loop ends when every future was yielded; the executor shuts down
return_valid_streams ==
    /\ epc = "running"
    /\ AllSubmitted
    /\ AllCollected
    /\ epc' = "returned"
    /\ UNCHANGED <<urls, batch_size, futures, collected, mainVars, resolverVars>>

NextEngine ==
    \/ submit
    \/ \E i \in 1..Len(futures) : worker_start(i)
    \/ \E i \in 1..Len(futures) : worker_finish(i)
    \/ \E i \in 1..Len(futures) : probe_hangs(i)
    \/ \E i \in 1..Len(futures) : collect(i)
    \/ return_valid_streams

SpecEngine == InitEngine /\ [][NextEngine]_vars

----------------------------------------------------------------------------
(* extract_and_validate_playlist: a recursive walk of nested playlists     *)

Master == <<"http://", "h", "/", "master.m3u8">>
VariantA == <<"http://", "h", "/", "a", "/", "v.m3u8">>
VariantB == <<"http://", "h", "/", "b", "/", "v.m3u8">>

\* the URIs a master playlist may list: the two variants, relative to the
\* master, a playlist that does not exist, and an entry without a URI
MasterRefs == { <<"a", "/", "v.m3u8">>, <<"b", "/", "v.m3u8">>, <<"gone.m3u8">>, <<>> }

\* the URIs a variant may list: itself, the other variant, the master
VariantRefs(other) == { <<"v.m3u8">>, other, Master }

\* url.rsplit('/', 1)[0] + '/'
BaseOf(url) == SubSeq(url, 1, LastSlash(url) - 1) \o <<"/">>

Playlist(segs, subs) == [segments |-> segs, playlists |-> subs]

\* the playlists that exist; m3u8.load raises for any other URL
Stores ==
    { (Master :> Playlist(<<<<"m.ts">>>>, ms))
        @@ (VariantA :> Playlist(<<<<"seg1.ts">>, <<"seg2.ts">>, <<"seg3.ts">>>>, as))
        @@ (VariantB :> Playlist(<<<<"seg1.ts">>, <<>>, <<"seg2.ts">>, <<"seg3.ts">>>>, bs)) :
        ms \in SeqsUpTo(MasterRefs, MaxSubs),
        as \in {<<>>} \cup {<<r>> : r \in VariantRefs(VariantB)},
        bs \in {<<>>} \cup {<<r>> : r \in VariantRefs(VariantA)} }

InitResolver ==
    /\ rpc = "running"
    /\ store \in Stores
    /\ stack = <<[url |-> Master, phase |-> "load", next |-> 1]>>
    /\ result = <<>>
    /\ loads = <<>>
    /\ raised = FALSE
    /\ MainIdle /\ EngineIdle

Top == stack[Len(stack)]

Pop(st) == SubSeq(st, 1, Len(st) - 1)

\* m3u8.load(url) succeeds: the playlist exists and the interpreter's
\* recursion limit is not exceeded
LoadSucceeds(url, depth) == url \in DOMAIN store /\ depth <= MaxDepth

\* the segments resolved against the base of the root playlist
SegmentUrlsRootBase(url) ==
    LET HasUri(seg) == seg # <<>>
        segs == SelectSeq(store[url].segments, HasUri)
    IN [i \in 1..Len(segs) |-> urljoin(BaseOf(Master), segs[i])]

\* the segments of a playlist, resolved, last segment first
SegmentUrlsReversed(url) ==
    LET HasUri(seg) == seg # <<>>
        segs == SelectSeq(store[url].segments, HasUri)
    IN Reverse([i \in 1..Len(segs) |-> urljoin(BaseOf(url), segs[i])])

\* the absolute URLs of the segments of a playlist that have a URI
SegmentUrls(url) ==
    LET HasUri(seg) == seg # <<>>
        segs == SelectSeq(store[url].segments, HasUri)
    IN [i \in 1..Len(segs) |-> urljoin(BaseOf(url), segs[i])]

\* the exception of a failed load leaves every call on the stack
Propagate(st) == [stack |-> <<>>, raised |-> TRUE]

\* what the except clause leaves: the call that failed returns normally
Caught(st) == [stack |-> Pop(st), raised |-> FALSE]

\* m3u8.load of the innermost call, then its loop over playlist.segments
load_playlist ==
    /\ rpc = "running"
    /\ stack # <<>>
    /\ Top.phase = "load"
    /\ loads' = Append(loads, Top.url)
    /\ IF LoadSucceeds(Top.url, Len(stack))
        THEN /\ result' = result \o SegmentUrls(Top.url)
             /\ stack' = [stack EXCEPT ![Len(stack)].phase = "nested"]
             /\ UNCHANGED <<rpc, raised>>
        ELSE /\ stack' = Caught(stack).stack
             /\ raised' = Caught(stack).raised
             /\ rpc' = IF stack' = <<>> THEN "done" ELSE rpc
             /\ UNCHANGED result
    /\ UNCHANGED <<store, mainVars, engineVars>>

\* one turn of the loop over playlist.playlists: the recursive call
nested_playlist ==
    /\ rpc = "running"
    /\ stack # <<>>
    /\ Top.phase = "nested"
    /\ Top.next <= Len(store[Top.url].playlists)
    /\ LET uri == store[Top.url].playlists[Top.next]
           here == [stack EXCEPT ![Len(stack)].next = Top.next + 1]
       IN stack' = IF uri # <<>>
                    THEN Append(here, [url |-> urljoin(BaseOf(Top.url), uri),
                                       phase |-> "load", next |-> 1])
                    ELSE here
    /\ UNCHANGED <<rpc, store, result, loads, raised, mainVars, engineVars>>

\* the loop over playlist.playlists is over: the call returns
return_from_playlist ==
    /\ rpc = "running"
    /\ stack # <<>>
    /\ Top.phase = "nested"
    /\ Top.next > Len(store[Top.url].playlists)
    /\ stack' = Pop(stack)
    /\ rpc' = IF stack' = <<>> THEN "done" ELSE rpc
    /\ UNCHANGED <<store, result, loads, raised, mainVars, engineVars>>

NextResolver == load_playlist \/ nested_playlist \/ return_from_playlist

SpecResolver == InitResolver /\ [][NextResolver]_vars

----------------------------------------------------------------------------
(* Properties of the writer (specification Spec)                           *)

\* the lines written, without the "\n" that save_valid_playlist adds
WrittenLines == [i \in 1..Len(writes) |-> SubSeq(writes[i], 1, Len(writes[i]) - 1)]

\* the text of the output file
OutputText == Flatten(writes)

\* the URL a candidate line stands for, as parse_m3u_playlist resolves it
ResolvedUrl(line) == urljoin(BaseUrl(url_or_path), strip(line))

RECURSIVE IsSubsequence(_, _)
IsSubsequence(s, t) ==
    IF s = <<>> THEN TRUE
    ELSE IF t = <<>> THEN FALSE
    ELSE IF Head(s) = Head(t) THEN IsSubsequence(Tail(s), Tail(t))
    ELSE IsSubsequence(s, Tail(t))

\* C1: a candidate line is written if and only if the URL it resolves to is
\* in the valid set, so the URLs written are exactly the candidates with a
\* positive verdict.
C1_Completeness ==
    pc = "saved" =>
        \A i \in 1..Len(input_lines) :
            IsCandidate(input_lines[i]) =>
                (input_lines[i] \in Range(WrittenLines)
                    <=> ResolvedUrl(input_lines[i]) \in Range(valid_streams))

\* C2: the lines written are a subsequence of the input lines, and so are
\* the candidate lines of the output file among those of the input.
C2_OrderPreserved ==
    pc = "saved" =>
        /\ IsSubsequence(WrittenLines, input_lines)
        /\ IsSubsequence(
                [i \in 1..Len(SelectSeq(splitlines(OutputText), IsCandidate)) |->
                    strip(SelectSeq(splitlines(OutputText), IsCandidate)[i])],
                [i \in 1..Len(SelectSeq(input_lines, IsCandidate)) |->
                    strip(SelectSeq(input_lines, IsCandidate)[i])])

\* a run that wrote two different lines and dropped a line between them
C2_Witness ==
    /\ pc = "saved"
    /\ Len(input_lines) = 3
    /\ Len(writes) = 2
    /\ WrittenLines = <<input_lines[1], input_lines[3]>>
    /\ input_lines[1] # input_lines[3]
    /\ IsCandidate(input_lines[1]) /\ IsCandidate(input_lines[2])

\* C3: every line that is blank or whose trimmed form starts with "#" is
\* written, whatever the valid set is.
C3_DirectivesKept ==
    pc = "saved" =>
        \A i \in 1..Len(input_lines) :
            ~IsCandidate(input_lines[i]) => input_lines[i] \in Range(WrittenLines)

\* C4: when every candidate has a positive verdict, loading the output file
\* the way the input was loaded gives the input lines again.
C4_Idempotent ==
    (/\ pc = "saved"
     /\ \A i \in 1..Len(input_lines) :
            IsCandidate(input_lines[i]) =>
                ResolvedUrl(input_lines[i]) \in Range(valid_streams))
        => load_m3u_playlist(url_or_path, OutputText, TRUE) = input_lines

\* C12: when the source cannot be fetched or read, validate_m3u returns no
\* lines and no valid streams without starting a probe, and the output
\* written holds no line.
C12_LoadErrorEmptyRun ==
    (pc \in {"validated", "saved"} /\ ~source_ok) =>
        /\ input_lines = <<>>
        /\ valid_streams = <<>>
        /\ probed = <<>>
        /\ writes = <<>>

\* a playlist of three lines, one of them a candidate, whose source cannot
\* be fetched or read: the run is over and nothing was written
C12_Witness ==
    /\ pc = "saved"
    /\ ~source_ok
    /\ Len(readlines(content)) = 3
    /\ \E i \in 1..3 : IsCandidate(readlines(content)[i])
    /\ OutputText = <<>>
    /\ printed = <<[kind |-> "saved", text |-> <<>>, n |-> 0]>>

\* C15: the number of the 'Saved N valid streams' message is the number of
\* candidate lines written to the output file.
C15_SummaryCount ==
    pc = "saved" =>
        printed[Len(printed)].n = Len(SelectSeq(WrittenLines, IsCandidate))

\* the URLs with a positive probe, whatever the order of completion
PositiveUrls == {probed[i] : i \in {j \in 1..Len(probed) : verdicts[j] = "best"}}

\* C17: the lines written are fixed by the input lines and the verdicts of
\* the probes: the order in which the probes completed plays no part.
C17_OrderIndependent ==
    pc = "saved" =>
        LET Kept(line) ==
                (strip(line) # <<>> /\ ~startswith(line, "#"))
                    => strip(line) \in PositiveUrls
        IN WrittenLines = SelectSeq(input_lines, Kept)

\* two positive probes collected in the reverse of the order of their
\* lines, a negative one, and the two lines written in the order of the input
C17_Witness ==
    /\ pc = "saved"
    /\ Len(probed) = 3
    /\ valid_streams = <<probed[3], probed[1]>>
    /\ probed[1] # probed[3]
    /\ verdicts[2] # "best"
    /\ WrittenLines = <<input_lines[1], input_lines[3]>>

\* the directory of the http source, against which relative lines resolve
HttpSourceDir == <<"http://", "h", "/", "p", "/">>

----------------------------------------------------------------------------
(* Properties of the engine (specification SpecEngine)                     *)

\* C5: no more than batch_size probes are in flight at any time.
C5_ConcurrencyBound == Cardinality(InFlight) <= batch_size

\* C6: at most one probe is ever started for a URL.
C6_ProbedOnce ==
    \A i, j \in 1..Len(futures) :
        (/\ i # j
         /\ futures[i].state # "queued"
         /\ futures[j].state # "queued") => futures[i].url # futures[j].url

\* C7: a probe that never completes does not stall the batch: until
\* validate_streams_in_batches has returned, it can take a step.
C7_NoStall == epc = "returned" \/ ENABLED NextEngine

\* the futures of a URL whose probe has ended
Ended(u) ==
    {i \in InState("done") \cup InState("collected") : futures[i].url = u}

Distinct(s) == \A i, j \in 1..Len(s) : s[i] = s[j] => i = j

\* C11: a probe that raised or found no 'best' rendition gives a negative
\* verdict, never an exception, and validate_streams_in_batches returns only
\* when the verdict of every submitted URL was collected: one per URL when
\* the URLs are unique.
C11_EveryUrlAccounted ==
    /\ \A i \in InState("done") \cup InState("collected") :
            /\ futures[i].outcome \in {"raise", "nobest"} => futures[i].result = None
            /\ futures[i].result \in {None, futures[i].url}
    /\ epc = "returned" =>
            /\ Len(futures) = Len(urls)
            /\ \A i \in 1..Len(urls) :
                    futures[i].url = urls[i] /\ futures[i].state = "collected"
            /\ Distinct(urls) =>
                    \A u \in Range(urls) : Cardinality(Ended(u)) = 1

\* two unique URLs, one probe negative and one positive, and the call returned
C11_Witness ==
    /\ epc = "returned"
    /\ Len(urls) = 2 /\ Distinct(urls)
    /\ futures[1].outcome = "raise"
    /\ futures[2].outcome = "best"
    /\ collected = <<urls[2]>>

\* C14: once a probe of a URL has given a negative verdict, the URL is not
\* in the valid collection.
C14_FailedProbeFinal ==
    \A i \in InState("done") \cup InState("collected") :
        futures[i].outcome # "best" => futures[i].url \notin Range(collected)

\* C16: when validate_streams_in_batches has returned, the URLs of the valid
\* collection are the URLs of which a probe found a 'best' rendition, and
\* all of them were submitted.
C16_ValidSet ==
    epc = "returned" =>
        /\ Range(collected) = {futures[i].url : i \in {j \in 1..Len(futures) : futures[j].outcome = "best"}}
        /\ Range(collected) \subseteq Range(urls)
        /\ \A u \in Range(urls) :
                (\A i \in Ended(u) : futures[i].outcome # "best") => u \notin Range(collected)

\* the call returned after a probe without 'best', one that raised and a
\* positive one
C16_Witness ==
    /\ epc = "returned"
    /\ \E i, j, k \in 1..Len(futures) :
            /\ futures[i].outcome = "nobest"
            /\ futures[j].outcome = "raise"
            /\ futures[k].outcome = "best"
            /\ futures[i].url # futures[k].url
            /\ futures[i].url \notin Range(collected)
            /\ futures[k].url \in Range(collected)

\* the positive probes of a URL that were collected
CollectedPositive(u) ==
    {i \in InState("collected") : futures[i].url = u /\ futures[i].outcome = "best"}

\* the step is one turn of the collecting loop that appends a positive result
IsCollectStep ==
    \E i \in InState("done") :
        /\ futures[i].outcome = "best"
        /\ futures' = [futures EXCEPT ![i].state = "collected"]
        /\ collected' = Append(collected, futures[i].url)

\* C20: only a turn of the collecting loop changes the valid collection (a
\* submit, a worker starting, finishing or hanging leaves it alone), and in
\* every interleaving the collection holds each collected positive verdict
\* exactly once.
C20_RaceFree ==
    /\ [](\A u \in EngineUrls : Count(collected, u) = Cardinality(CollectedPositive(u)))
    /\ [](Range(collected) \subseteq EngineUrls)
    /\ [][collected' # collected => IsCollectStep]_vars

\* two positive probes of one URL and one of another, completed and collected
C20_Witness ==
    /\ epc = "returned"
    /\ Len(collected) = 3
    /\ \E u \in EngineUrls : Count(collected, u) = 2

----------------------------------------------------------------------------
(* Properties of the resolver (specification SpecResolver)                 *)

\* the playlists a playlist refers to
Refs(p) ==
    IF p \in DOMAIN store
        THEN {urljoin(BaseOf(p), uri) : uri \in Range(store[p].playlists) \ {<<>>}}
        ELSE {}

RECURSIVE ReachIn(_, _)
ReachIn(S, n) == IF n = 0 THEN S ELSE ReachIn(S \cup UNION {Refs(p) : p \in S}, n - 1)

\* the playlists reached from p in one step or more
ReachableFrom(p) == ReachIn(Refs(p), Cardinality(DOMAIN store))

OnCycle(p) == p \in ReachableFrom(p)

\* C8: the candidates of a playlist that lies on a cycle are in the result
\* no more than once.
C8_CycleCandidatesOnce ==
    rpc = "done" =>
        \A p \in DOMAIN store :
            OnCycle(p) => \A u \in Range(SegmentUrls(p)) : Count(result, u) <= 1

\* C9: no playlist URL is loaded more than once during one resolution.
C9_LoadedOnce == \A u \in Range(loads) : Count(loads, u) <= 1

\* C10: no exception leaves extract_and_validate_playlist, and when it has
\* returned the result holds the candidates of the root and of every
\* playlist that exists and is reached from it, whichever loads failed.
C10_FailureContained ==
    /\ raised = FALSE
    /\ rpc = "done" =>
        \A p \in ({Master} \cup ReachableFrom(Master)) \cap DOMAIN store :
            Range(SegmentUrls(p)) \subseteq Range(result)

\* a master listing a variant, a playlist that fails to load, and the other
\* variant: the resolution is over and holds the segments of both variants
C10_Witness ==
    /\ rpc = "done"
    /\ store[Master].playlists = <<<<"a", "/", "v.m3u8">>, <<"gone.m3u8">>, <<"b", "/", "v.m3u8">>>>
    /\ <<"http://", "h", "/", "gone.m3u8">> \in Range(loads)
    /\ Range(SegmentUrls(VariantA)) \cup Range(SegmentUrls(VariantB)) \subseteq Range(result)

\* a URL up to its last "/"
Dir(u) == SubSeq(u, 1, LastSlash(u))

\* C13: every candidate in the result is a segment URI of a loaded playlist
\* that follows the directory of that playlist's own URL, and a master with
\* two variants of three relative segments each gives, besides its own
\* segment, six distinct URLs, three in the directory of each variant.
C13_OwnBase ==
    /\ \A u \in Range(result) :
            \E p \in Range(loads) \cap DOMAIN store :
                /\ Dir(u) = Dir(p)
                /\ SubSeq(u, LastSlash(u) + 1, Len(u)) \in Range(store[p].segments)
    /\ (/\ rpc = "done"
        /\ store[Master].playlists = << <<"a", "/", "v.m3u8">>, <<"b", "/", "v.m3u8">> >>
        /\ store[VariantA].playlists = <<>>
        /\ store[VariantB].playlists = <<>>)
        => result = << <<"http://", "h", "/", "m.ts">>,
                       <<"http://", "h", "/", "a", "/", "seg1.ts">>,
                       <<"http://", "h", "/", "a", "/", "seg2.ts">>,
                       <<"http://", "h", "/", "a", "/", "seg3.ts">>,
                       <<"http://", "h", "/", "b", "/", "seg1.ts">>,
                       <<"http://", "h", "/", "b", "/", "seg2.ts">>,
                       <<"http://", "h", "/", "b", "/", "seg3.ts">> >>

\* the resolution of a master with the two variants is over: six distinct
\* candidates besides the master's own
C13_Witness ==
    /\ rpc = "done"
    /\ store[Master].playlists = << <<"a", "/", "v.m3u8">>, <<"b", "/", "v.m3u8">> >>
    /\ store[VariantA].playlists = <<>>
    /\ store[VariantB].playlists = <<>>
    /\ Cardinality(Range(result) \ {<<"http://", "h", "/", "m.ts">>}) = 6

\* the candidates of a depth-first walk in declaration order: the segments
\* of a playlist, then the walk of each playlist it lists
RECURSIVE Walk(_, _)
RECURSIVE WalkAll(_, _, _)
Walk(p, depth) ==
    IF p \notin DOMAIN store \/ depth > MaxDepth THEN <<>>
    ELSE LET HasUri(x) == x # <<>>
             segs == SelectSeq(store[p].segments, HasUri)
         IN [i \in 1..Len(segs) |-> Dir(p) \o segs[i]]
                \o WalkAll(p, SelectSeq(store[p].playlists, HasUri), depth + 1)
WalkAll(p, refs, depth) ==
    IF refs = <<>> THEN <<>>
    ELSE Walk(IF IsHttp(Head(refs)) THEN Head(refs) ELSE Dir(p) \o Head(refs), depth)
            \o WalkAll(p, Tail(refs), depth)

IsPrefix(s, t) == Len(s) <= Len(t) /\ s = SubSeq(t, 1, Len(s))

\* C19: at every point the accumulator is the beginning of the depth-first
\* walk in declaration order, so what it holds is never removed or
\* reordered, and it is the whole walk when the outermost call has returned.
C19_DepthFirstOrder ==
    /\ IsPrefix(result, Walk(Master, 1))
    /\ rpc = "done" => result = Walk(Master, 1)

\* a master listing variant b, then variant a, which lists b again: the
\* segments of b, those of a, those of b
C19_Witness ==
    /\ rpc = "done"
    /\ store[Master].playlists = << <<"b", "/", "v.m3u8">>, <<"a", "/", "v.m3u8">> >>
    /\ store[VariantA].playlists = <<VariantB>>
    /\ store[VariantB].playlists = <<>>
    /\ Len(result) = 10
    /\ result[2] = <<"http://", "h", "/", "b", "/", "seg1.ts">>
    /\ result[5] = <<"http://", "h", "/", "a", "/", "seg1.ts">>
    /\ result[10] = <<"http://", "h", "/", "b", "/", "seg3.ts">>

====
